---- MODULE Spec2Model ----
(***************************************************************************)
(* A model of the geometric core of tf-retinanet:                          *)
(*   backend/anchors.py   shift, bbox_transform_inv                        *)
(*   layers/clip_boxes.py ClipBoxes.call, ClipBoxes.compute_output_shape   *)
(*   utils/version.py     tf_version, tf_version_ok, assert_tf_version,    *)
(*                        check_tf_version                                 *)
(*                                                                         *)
(* Floating-point values are modelled as exact rationals <<num, den>> in   *)
(* lowest terms (den > 0); rounding is not modelled.  A tensor is a record *)
(* [shape, data] with data in row-major order, as TensorFlow stores it.    *)
(* Python's 0-based indices are kept through At / the explicit "+ 1".      *)
(***************************************************************************)
EXTENDS Integers, Sequences, FiniteSets, TLC

VARIABLES op, args, result, IMAGE_DATA_FORMAT

vars == <<op, args, result, IMAGE_DATA_FORMAT>>

\* ------------------------------------------------------------------------
\* Bounds of the model
\* ------------------------------------------------------------------------
MaxImg == 2
MaxFeat == 2
MaxStride == 2
MaxA == 2
MaxB == 2
MaxN == 4
MaxDim == 2
MaxMajor == 3
MaxMinor == 15
MaxPatch == 2

\* ------------------------------------------------------------------------
\* Exact rational arithmetic standing for the float arithmetic of the code
\* ------------------------------------------------------------------------
Abs(n) == IF n < 0 THEN 0 - n ELSE n

RECURSIVE GCD(_, _)
GCD(a, b) == IF b = 0 THEN a ELSE GCD(b, a % b)

Norm(n, d) ==
    LET s == IF d < 0 THEN 0 - 1 ELSE 1
        g == GCD(Abs(n), Abs(d))
    IN  <<(s * n) \div g, (s * d) \div g>>

R(n) == <<n, 1>>

RAdd(x, y) == Norm(x[1] * y[2] + y[1] * x[2], x[2] * y[2])
RSub(x, y) == Norm(x[1] * y[2] - y[1] * x[2], x[2] * y[2])
RMul(x, y) == Norm(x[1] * y[1], x[2] * y[2])
RLe(x, y) == x[1] * y[2] <= y[1] * x[2]
RMin(x, y) == IF RLe(x, y) THEN x ELSE y
RMax(x, y) == IF RLe(x, y) THEN y ELSE x

\* tf.keras.backend.cast(x, floatx()) of an integer
Cast(n) == R(n)

\* "/ 2.0" computed with integer (floor) division instead of true division
Div2_floor(x) == R((x[1] \div x[2]) \div 2)

\* "/ 2.0" on a float
Div2(x) == Norm(x[1], 2 * x[2])

\* ------------------------------------------------------------------------
\* Tensors
\* ------------------------------------------------------------------------
At(seq, i) == seq[i + 1]

RECURSIVE Size(_)
Size(shape) == IF shape = <<>> THEN 1 ELSE Head(shape) * Size(Tail(shape))

\* (the data is kept as an explicit tuple, so that an element is computed once)
Tensor(shape, data) == [shape |-> shape, data |-> data \o <<>>]

\* tf.keras.backend.arange(start, stop, dtype=floatx()) with start <= stop
Arange(start, stop) ==
    Tensor(<<stop - start>>, [k \in 1..(stop - start) |-> Cast(start + k - 1)])

\* tensor * python scalar, tensor + float scalar
ScalarMul(t, c) == Tensor(t.shape, [k \in 1..Len(t.data) |-> RMul(t.data[k], c)])
ScalarAdd(t, c) == Tensor(t.shape, [k \in 1..Len(t.data) |-> RAdd(t.data[k], c)])

\* tf.meshgrid with indexing='ij': the first input indexes the rows
MeshgridIJ(x, y) ==
    LET nx == x.shape[1]
        ny == y.shape[1]
    IN  << Tensor(<<nx, ny>>, [k \in 1..(nx * ny) |-> x.data[((k - 1) \div ny) + 1]]),
           Tensor(<<nx, ny>>, [k \in 1..(nx * ny) |-> y.data[((k - 1) % ny) + 1]]) >>

\* tf.meshgrid(x, y) with the default indexing='xy': both outputs have shape
\* (len(y), len(x)); X[i, j] = x[j] and Y[i, j] = y[i]
Meshgrid(x, y) ==
    LET nx == x.shape[1]
        ny == y.shape[1]
    IN  << Tensor(<<ny, nx>>, [k \in 1..(ny * nx) |-> x.data[((k - 1) % nx) + 1]]),
           Tensor(<<ny, nx>>, [k \in 1..(ny * nx) |-> y.data[((k - 1) \div nx) + 1]]) >>

\* tf.keras.backend.reshape: same data, new shape; [-1] flattens
Reshape(t, shape) ==
    Tensor(IF shape = <<0 - 1>> THEN <<Size(t.shape)>> ELSE shape, t.data)

\* tf.keras.backend.stack(ts, axis=0) of equally shaped tensors
Stack0(ts) ==
    LET n == Size(ts[1].shape)
    IN  Tensor(<<Len(ts)>> \o ts[1].shape,
               [k \in 1..(Len(ts) * n) |-> ts[((k - 1) \div n) + 1].data[((k - 1) % n) + 1]])

\* the stack made along axis 0 where the code asks for axis 2
Stack2_axis0(ts) == Stack0(ts)

\* tf.keras.backend.stack(ts, axis=2) of equally shaped rank-2 tensors
Stack2(ts) ==
    LET n == Size(ts[1].shape)
        c == Len(ts)
    IN  Tensor(ts[1].shape \o <<c>>,
               [k \in 1..(n * c) |-> ts[((k - 1) % c) + 1].data[((k - 1) \div c) + 1]])

\* tf.keras.backend.transpose of a rank-2 tensor
Transpose(t) ==
    LET r == t.shape[1]
        c == t.shape[2]
    IN  Tensor(<<c, r>>,
               [k \in 1..(r * c) |-> t.data[((k - 1) % r) * c + ((k - 1) \div r) + 1]])

\* the broadcast of two shapes of equal rank; -1 marks an incompatible axis
BroadcastShape(s, t) ==
    [i \in 1..Len(s) |->
        IF s[i] = t[i] THEN s[i]
        ELSE IF s[i] = 1 THEN t[i]
        ELSE IF t[i] = 1 THEN s[i]
        ELSE 0 - 1]

Compatible(s, t) == \A i \in 1..Len(s) : BroadcastShape(s, t)[i] >= 0

\* the flat offset, in a tensor of shape ts, of the element that flat offset k
\* of the broadcast shape sh reads: an axis of size 1 is read at index 0
RECURSIVE Source(_, _, _)
Source(k, sh, ts) ==
    IF sh = <<>> THEN 0
    ELSE LET inner == Size(Tail(sh))
         IN  (IF Head(ts) = 1 THEN 0 ELSE k \div inner) * Size(Tail(ts))
             + Source(k % inner, Tail(sh), Tail(ts))

\* the float operation of an elementwise "+", "-" or "*"
Binary(f, x, y) ==
    CASE f = "+" -> RAdd(x, y)
      [] f = "-" -> RSub(x, y)
      [] f = "*" -> RMul(x, y)

\* an elementwise binary operation with broadcasting (shapes compatible)
Elementwise(f, s, t) ==
    LET sh == BroadcastShape(s.shape, t.shape)
        sd == s.data
        td == t.data
    IN  Tensor(sh, [k \in 1..Size(sh) |->
                       Binary(f, sd[Source(k - 1, sh, s.shape) + 1],
                                 td[Source(k - 1, sh, t.shape) + 1])])

Ok(v) == [status |-> "ok", value |-> v]
Raise(kind) == [status |-> "error", kind |-> kind]

\* ------------------------------------------------------------------------
\* backend/anchors.py: shift
\* ------------------------------------------------------------------------
shift(image_shape, features_shape, stride, anchors) ==
    LET offset_x == Div2(Cast(At(image_shape, 1) - (At(features_shape, 1) - 1) * stride))
        offset_y == Div2(Cast(At(image_shape, 0) - (At(features_shape, 0) - 1) * stride))
        shift_x0 == ScalarAdd(ScalarMul(Arange(0, At(features_shape, 1)), R(stride)), offset_x)
        shift_y0 == ScalarAdd(ScalarMul(Arange(0, At(features_shape, 0)), R(stride)), offset_y)
        grid == Meshgrid(shift_x0, shift_y0)
        shift_x == Reshape(grid[1], <<0 - 1>>)
        shift_y == Reshape(grid[2], <<0 - 1>>)
        shifts == Transpose(Stack0(<<shift_x, shift_y, shift_x, shift_y>>))
        number_of_anchors == At(anchors.shape, 0)
        k == At(shifts.shape, 0)
        shifted_anchors ==
            Elementwise("+", Reshape(anchors, <<1, number_of_anchors, 4>>),
                              Reshape(shifts, <<k, 1, 4>>))
    IN  Ok(Reshape(shifted_anchors, <<k * number_of_anchors, 4>>))

\* ------------------------------------------------------------------------
\* backend/anchors.py: bbox_transform_inv
\* ------------------------------------------------------------------------
\* an omitted keyword argument
None == <<>>

\* t[:, :, c] of a rank-3 tensor
Col(t, c) ==
    LET n == t.shape[1] * t.shape[2]
        last == t.shape[3]
    IN  Tensor(<<t.shape[1], t.shape[2]>>, [k \in 1..n |-> t.data[(k - 1) * last + c + 1]])

\* the defaults of lines 106-109
MeanDefault == <<R(0), R(0), R(0), R(0)>>
StdDefault == <<Norm(1, 5), Norm(1, 5), Norm(1, 5), Norm(1, 5)>>

\* "deltas + std" written where the code has "deltas * std"
Decoded_addStd(corner, delta, std_c, mean_c, extent) ==
    Elementwise("+", corner,
                Elementwise("*", ScalarAdd(ScalarAdd(delta, std_c), mean_c), extent))

\* one of lines 114-117: corner + (delta * std[c] + mean[c]) * extent
Decoded(corner, delta, std_c, mean_c, extent) ==
    Elementwise("+", corner,
                Elementwise("*", ScalarAdd(ScalarMul(delta, std_c), mean_c), extent))

\* The code makes no shape check of its own.  Every binary operation of
\* lines 114-117 broadcasts its operands, and TensorFlow raises only when two
\* axes differ and neither is 1.
bbox_transform_inv(boxes, deltas, mean, std) ==
    LET mean1 == IF mean = None THEN MeanDefault ELSE mean
        std1 == IF std = None THEN StdDefault ELSE std
        width == Elementwise("-", Col(boxes, 2), Col(boxes, 0))
        height == Elementwise("-", Col(boxes, 3), Col(boxes, 1))
        x_1 == Decoded(Col(boxes, 0), Col(deltas, 0), At(std1, 0), At(mean1, 0), width)
        y_1 == Decoded(Col(boxes, 1), Col(deltas, 1), At(std1, 1), At(mean1, 1), height)
        x_2 == Decoded(Col(boxes, 2), Col(deltas, 2), At(std1, 2), At(mean1, 2), width)
        y_2 == Decoded(Col(boxes, 3), Col(deltas, 3), At(std1, 3), At(mean1, 3), height)
    IN  IF ~Compatible(Col(deltas, 0).shape, width.shape)
        THEN Raise("InvalidArgumentError")
        ELSE Ok(Stack2(<<x_1, y_1, x_2, y_2>>))

\* ------------------------------------------------------------------------
\* layers/clip_boxes.py: ClipBoxes
\* ------------------------------------------------------------------------
\* a clamp that tests the upper bound first and returns at once
clip_by_value_upperFirst(t, clip_value_min, clip_value_max) ==
    Tensor(t.shape, [k \in 1..Len(t.data) |->
        IF ~RLe(t.data[k], clip_value_max) THEN clip_value_max
        ELSE IF ~RLe(clip_value_min, t.data[k]) THEN clip_value_min
        ELSE t.data[k]])

\* tf.clip_by_value: maximum(minimum(t, clip_value_max), clip_value_min)
clip_by_value(t, clip_value_min, clip_value_max) ==
    Tensor(t.shape, [k \in 1..Len(t.data) |->
        RMax(RMin(t.data[k], clip_value_max), clip_value_min)])

\* the axes of 'channels_last' taken whatever the setting is
ClipBoxes_call_axesOfLast(image_data_format, image_shape, boxes) ==
    LET shape == [i \in 1..Len(image_shape) |-> Cast(image_shape[i])]
        height == At(shape, 1)
        width == At(shape, 2)
        x_1 == clip_by_value(Col(boxes, 0), R(0), RSub(width, R(1)))
        y_1 == clip_by_value(Col(boxes, 1), R(0), RSub(height, R(1)))
        x_2 == clip_by_value(Col(boxes, 2), R(0), RSub(width, R(1)))
        y_2 == clip_by_value(Col(boxes, 3), R(0), RSub(height, R(1)))
    IN  Ok(Stack2(<<x_1, y_1, x_2, y_2>>))

\* the upper bounds taken as width and height, not width - 1 and height - 1
ClipBoxes_call_offByOne(image_data_format, image_shape, boxes) ==
    LET shape == [i \in 1..Len(image_shape) |-> Cast(image_shape[i])]
        height == IF image_data_format = "channels_first" THEN At(shape, 2) ELSE At(shape, 1)
        width == IF image_data_format = "channels_first" THEN At(shape, 3) ELSE At(shape, 2)
        x_1 == clip_by_value(Col(boxes, 0), R(0), width)
        y_1 == clip_by_value(Col(boxes, 1), R(0), height)
        x_2 == clip_by_value(Col(boxes, 2), R(0), width)
        y_2 == clip_by_value(Col(boxes, 3), R(0), height)
    IN  Ok(Stack2(<<x_1, y_1, x_2, y_2>>))

\* ClipBoxes.call; image_data_format is what
\* tf.keras.backend.image_data_format() returns, image_shape is
\* tf.keras.backend.shape(image)
ClipBoxes_call(image_data_format, image_shape, boxes) ==
    LET shape == [i \in 1..Len(image_shape) |-> Cast(image_shape[i])]
        height == IF image_data_format = "channels_first" THEN At(shape, 2) ELSE At(shape, 1)
        width == IF image_data_format = "channels_first" THEN At(shape, 3) ELSE At(shape, 2)
        x_1 == clip_by_value(Col(boxes, 0), R(0), RSub(width, R(1)))
        y_1 == clip_by_value(Col(boxes, 1), R(0), RSub(height, R(1)))
        x_2 == clip_by_value(Col(boxes, 2), R(0), RSub(width, R(1)))
        y_2 == clip_by_value(Col(boxes, 3), R(0), RSub(height, R(1)))
    IN  Ok(Stack2(<<x_1, y_1, x_2, y_2>>))

\* ClipBoxes.compute_output_shape
compute_output_shape(input_shape) == At(input_shape, 1)

\* ------------------------------------------------------------------------
\* utils/version.py
\* ------------------------------------------------------------------------
\* A string is a sequence of one-character strings, the characters being
\* those of Latin-1 (U+0001..U+00FF).  Two facts about the interpreter that
\* runs the module are inputs of the functions they affect:
\*   python    the interpreter's family, which decides what int() reads:
\*               "2.7"  Python 2, where tf.version.VERSION is a byte string
\*               "3.5"  Python 3 before 3.6
\*               "3.6"  Python 3.6 and later
\*   optimize  the interpreter runs with -O, which compiles assert
\*             statements away
Pythons == {"2.7", "3.5", "3.6"}
MINIMUM_TF_VERSION == <<1, 14, 0>>
BLACKLISTED_TF_VERSIONS == << <<2, 0, 0>>, <<2, 0, 1>> >>

Digits == <<"0", "1", "2", "3", "4", "5", "6", "7", "8", "9">>

DigitValue(ch) == (CHOOSE i \in 1..Len(Digits) : Digits[i] = ch) - 1

IsDigit(ch) == \E i \in 1..Len(Digits) : Digits[i] = ch

\* str(n) for n >= 0
RECURSIVE Str(_)
Str(n) == IF n < Len(Digits) THEN <<Digits[n + 1]>>
          ELSE Str(n \div Len(Digits)) \o <<Digits[(n % Len(Digits)) + 1]>>

\* s.split(sep): the pieces of s between the occurrences of sep
RECURSIVE Split(_, _)
Split(s, sep) ==
    IF \A i \in 1..Len(s) : s[i] # sep THEN <<s>>
    ELSE LET i == CHOOSE j \in 1..Len(s) : s[j] = sep /\ \A m \in 1..(j - 1) : s[m] # sep
         IN  <<SubSeq(s, 1, i - 1)>> \o Split(SubSeq(s, i + 1, Len(s)), sep)

\* sep.join(parts)
RECURSIVE Join(_, _)
Join(parts, sep) ==
    IF parts = <<>> THEN <<>>
    ELSE IF Len(parts) = 1 THEN parts[1]
    ELSE parts[1] \o <<sep>> \o Join(Tail(parts), sep)

\* the value of a string of decimal digits
RECURSIVE DigitsValue(_)
DigitsValue(s) ==
    IF s = <<>> THEN 0
    ELSE DigitsValue(SubSeq(s, 1, Len(s) - 1)) * Len(Digits) + DigitValue(s[Len(s)])

\* the characters U+000B (vertical tab), U+0085 (next line) and U+00A0
\* (no-break space), which have no escape in a string
VT == ""
NEL == ""
NBSP == " "

\* int(s) first strips the whitespace around s: space, \t, \n, \v, \f, \r,
\* and for a text string of Python 3 U+0085 and U+00A0 too.  (The separators
\* U+001C..U+001F are not stripped.)
Whitespace(python) ==
    {" ", "\t", "\n", VT, "\f", "\r"} \cup (IF python = "2.7" THEN {} ELSE {NEL, NBSP})

RECURSIVE LStrip(_, _)
LStrip(s, python) ==
    IF s # <<>> /\ Head(s) \in Whitespace(python) THEN LStrip(Tail(s), python) ELSE s

RECURSIVE RStrip(_, _)
RStrip(s, python) ==
    IF s # <<>> /\ s[Len(s)] \in Whitespace(python)
    THEN RStrip(SubSeq(s, 1, Len(s) - 1), python) ELSE s

Strip(s, python) == RStrip(LStrip(s, python), python)

\* the stripped text without its sign, if it has one.  Python 2 skips
\* whitespace once more between the sign and the digits (int('+ 14') is 14);
\* Python 3 does not (ValueError).
Unsigned(s, python) ==
    LET t == Strip(s, python)
    IN  IF t # <<>> /\ t[1] \in {"+", "-"}
        THEN IF python = "2.7" THEN LStrip(Tail(t), python) ELSE Tail(t)
        ELSE t

\* what int(s) accepts: optional whitespace around an optional sign (and,
\* under Python 2, after it) and decimal digits, with single underscores
\* allowed between digits where the interpreter reads them (Python 3.6 and
\* later); anything else raises ValueError.  (Latin-1 has no decimal digits
\* but '0'..'9'.)
IsInt(s, python) ==
    LET d == Unsigned(s, python)
    IN  /\ d # <<>>
        /\ IsDigit(d[1])
        /\ IsDigit(d[Len(d)])
        /\ \A i \in 1..Len(d) :
              \/ IsDigit(d[i])
              \/ (python = "3.6" /\ d[i] = "_" /\ IsDigit(d[i - 1]) /\ IsDigit(d[i + 1]))

\* int(s) of an accepted string
IntValue(s, python) ==
    LET t == Strip(s, python)
        magnitude == DigitsValue(SelectSeq(Unsigned(s, python), IsDigit))
    IN  IF t[1] = "-" THEN 0 - magnitude ELSE magnitude

\* Python's order on tuples of integers: a >= b
RECURSIVE TupleGe(_, _)
TupleGe(a, b) ==
    IF b = <<>> THEN TRUE
    ELSE IF a = <<>> THEN FALSE
    ELSE IF Head(a) # Head(b) THEN Head(a) > Head(b)
    ELSE TupleGe(Tail(a), Tail(b))

InList(x, list) == \E i \in 1..Len(list) : list[i] = x

\* tf_version(): tuple(map(int, VERSION.split('-')[0].split('.')))
tf_version(VERSION, python) ==
    LET parts == Split(At(Split(VERSION, "-"), 0), ".")
    IN  IF \A i \in 1..Len(parts) : IsInt(parts[i], python)
        THEN Ok([i \in 1..Len(parts) |-> IntValue(parts[i], python)])
        ELSE Raise("ValueError")

\* tf_version_ok
tf_version_ok(VERSION, python, minimum_tf_version, blacklisted) ==
    LET v == tf_version(VERSION, python)
    IN  IF v.status # "ok" THEN v
        ELSE Ok(TupleGe(v.value, minimum_tf_version) /\ ~InList(v.value, blacklisted))

\* assert_tf_version: the assertion's message names the detected version, the
\* required one and the blacklist.  The test is an assert statement: under -O
\* the statement is not compiled, tf_version_ok is not called and the function
\* returns None whatever the version is.
assert_tf_version(VERSION, python, optimize, minimum_tf_version, blacklisted) ==
    LET detected == VERSION
        required == Join([i \in 1..Len(minimum_tf_version) |-> Str(minimum_tf_version[i])], ".")
        ok == tf_version_ok(VERSION, python, minimum_tf_version, blacklisted)
    IN  IF optimize THEN Ok(None)
        ELSE IF ok.status # "ok" THEN ok
        ELSE IF ok.value THEN Ok(None)
        ELSE [status |-> "error", kind |-> "AssertionError",
              message |-> [detected |-> detected, required |-> required,
                           blacklisted |-> blacklisted]]

\* check_tf_version: an AssertionError is printed to stderr and the process
\* exits with status 1; any other exception propagates
check_tf_version(VERSION, python, optimize) ==
    LET r == assert_tf_version(VERSION, python, optimize,
                               MINIMUM_TF_VERSION, BLACKLISTED_TF_VERSIONS)
    IN  IF r.status = "error" /\ r.kind = "AssertionError"
        THEN [status |-> "exit", code |-> 1, stderr |-> r.message]
        ELSE r

\* ------------------------------------------------------------------------
\* Inputs
\* ------------------------------------------------------------------------
\* a tensor of `count` rows of four coordinates, taken from `pool` starting
\* at `seed` and advancing by `step`
Fill(pool, shape, seed, step) ==
    LET count == Size(shape)
    IN  Tensor(shape \o <<4>>,
               [k \in 1..(count * 4) |->
                   pool[((seed + step * ((k - 1) \div 4)) % Len(pool)) + 1][((k - 1) % 4) + 1]])

\* anchor templates; coordinates are integers here, halves arise from the offset
AnchorPool == << <<R(0), R(0), R(0), R(0)>>,
                <<R(0 - 1), R(0 - 1), R(1), R(1)>>,
                <<R(0 - 2), R(0 - 1), R(2), R(1)>> >>

\* boxes for the decoder: the spec's example, a small box, a zero-area box and
\* an inverted box
BoxPool == << <<R(0), R(0), R(10), R(10)>>,
             <<R(1), R(2), R(3), R(5)>>,
             <<R(2), R(3), R(2), R(3)>>,
             <<R(4), R(3), R(1), R(1)>> >>

DeltaPool == << <<R(0), R(0), R(0), R(0)>>,
               <<Norm(1, 2), R(0), R(0), R(0)>>,
               <<R(0 - 1), Norm(1, 2), R(2), R(1)>> >>

\* (mean, std) as the caller passes them: both omitted, the identity
\* statistics, and statistics that differ on every coordinate
OddMean == <<Norm(1, 2), R(0), R(0 - 1), R(1)>>
OddStd == <<R(2), Norm(1, 2), R(0), R(0 - 1)>>
StatsPool == << <<None, None>>,
               <<MeanDefault, <<R(1), R(1), R(1), R(1)>> >>,
               <<MeanDefault, OddStd>>,
               <<OddMean, None>>,
               <<OddMean, OddStd>> >>

\* boxes for the clipper: one reaching over every edge, one inside, an
\* inverted one and one with fractional coordinates
ClipPool == << <<R(0 - 2), R(0 - 1), R(3), R(4)>>,
              <<R(0), R(0), R(1), R(1)>>,
              <<R(3), R(2), R(0 - 1), R(0)>>,
              <<Norm(1, 2), Norm(3, 2), Norm(1, 2), Norm(5, 2)>> >>

\* the values tf.keras.backend.image_data_format() returns: the setting holds
\* one of them from the start and its setter accepts no other
DataFormats == {"channels_first", "channels_last"}

\* what a caller may hand to tf.keras.backend.set_image_data_format
SettingsTried == DataFormats \cup {"channels_middle"}

\* tf.keras.backend.set_image_data_format: an unknown value raises ValueError
\* and leaves the setting as it was
set_image_data_format(data_format) ==
    IF data_format \in DataFormats THEN Ok(None) ELSE Raise("ValueError")

\* the text after the patch number in tf.version.VERSION
Suffixes == { <<>>, <<"-", "r", "c", "1">>, <<"r", "c", "0">> }

\* the ways a component of the version is written that int() reads alike:
\* 14, +14, 14 between blanks, 14 between a vertical tab and a form feed and a
\* carriage return, 14 between U+00A0 and U+0085, 1_4, and + 14 with
\* whitespace after the sign
Styles == {"plain", "plus", "blank", "control", "latin", "underscore", "apart"}

Written(n, style) ==
    CASE style = "plain" -> Str(n)
      [] style = "plus" -> <<"+">> \o Str(n)
      [] style = "blank" -> <<" ">> \o Str(n) \o <<" ">>
      [] style = "control" -> <<VT, "\f">> \o Str(n) \o <<"\r">>
      [] style = "latin" -> <<NBSP>> \o Str(n) \o <<NEL>>
      [] style = "apart" -> <<"+", " ", "\t">> \o Str(n)
      [] style = "underscore" -> Join([i \in 1..Len(Str(n)) |-> <<Str(n)[i]>>], "_")

\* the minor numbers tried: the lowest two, and those around the minimum's
Minors == {0, 1} \cup ((MINIMUM_TF_VERSION[2] - 1)..MaxMinor)

\* tf.version.VERSION for a version, a style and a suffix
VersionString(major, minor, patch, style, suffix) ==
    Join(<<Written(major, style), Written(minor, style), Written(patch, style)>>, ".")
        \o suffix

\* ------------------------------------------------------------------------
\* State machine: the library is a set of pure functions; a state records
\* the last call and what it returned
\* ------------------------------------------------------------------------
Init ==
    /\ op = "none"
    /\ args = <<>>
    /\ result = Ok(<<>>)
    /\ IMAGE_DATA_FORMAT = "channels_last"

\* the process-wide setting is changed through its setter
SetImageDataFormat ==
    /\ op = "none"
    /\ \E data_format \in SettingsTried :
           /\ op' = "set_image_data_format"
           /\ args' = [data_format |-> data_format, before |-> IMAGE_DATA_FORMAT]
           /\ result' = set_image_data_format(data_format)
           /\ IMAGE_DATA_FORMAT' =
                  IF result'.status = "ok" THEN data_format ELSE IMAGE_DATA_FORMAT

Shift ==
    /\ op = "none"
    /\ UNCHANGED IMAGE_DATA_FORMAT
    /\ \E h \in 0..MaxImg, w \in 0..MaxImg, hf \in 0..MaxFeat, wf \in 0..MaxFeat,
          stride \in (0 - 1)..MaxStride, a \in 0..MaxA, seed \in 0..(Len(AnchorPool) - 1) :
           /\ (a = 0 => seed = 0)
           /\ op' = "shift"
           /\ args' = [image_shape |-> <<h, w>>, features_shape |-> <<hf, wf>>,
                       stride |-> stride, anchors |-> Fill(AnchorPool, <<a>>, seed, 1)]
           /\ result' = shift(args'.image_shape, args'.features_shape, args'.stride,
                              args'.anchors)

Decode ==
    /\ op = "none"
    /\ UNCHANGED IMAGE_DATA_FORMAT
    /\ \E bb \in 1..MaxB, nb \in 1..MaxN, bd \in 1..MaxB, nd \in 1..MaxN,
          bseed \in 0..(Len(BoxPool) - 1), dseed \in 0..(Len(DeltaPool) - 1), dstep \in 0..1,
          st \in 1..Len(StatsPool) :
           \* dstep = 0 repeats one delta: the all-zero deltas
           /\ (dstep = 0 => dseed = 0)
           /\ op' = "bbox_transform_inv"
           /\ args' = [boxes |-> Fill(BoxPool, <<bb, nb>>, bseed, 1),
                       deltas |-> Fill(DeltaPool, <<bd, nd>>, dseed, dstep),
                       mean |-> StatsPool[st][1], std |-> StatsPool[st][2]]
           /\ result' = bbox_transform_inv(args'.boxes, args'.deltas, args'.mean, args'.std)

Clip ==
    /\ op = "none"
    /\ UNCHANGED IMAGE_DATA_FORMAT
    /\ \E d1 \in 0..MaxDim, d2 \in 0..MaxDim, d3 \in 0..MaxDim,
          b \in 1..MaxB, n \in 1..MaxN, seed \in 0..(Len(ClipPool) - 1) :
           /\ op' = "clip"
           /\ args' = [image_data_format |-> IMAGE_DATA_FORMAT,
                       image_shape |-> <<b, d1, d2, d3>>,
                       boxes |-> Fill(ClipPool, <<b, n>>, seed, 1)]
           /\ result' = ClipBoxes_call(IMAGE_DATA_FORMAT, args'.image_shape, args'.boxes)

\* the caller clips the boxes it got back, against the same image
Reclip ==
    /\ op = "clip"
    /\ op' = "reclip"
    /\ args' = [args EXCEPT !.boxes = result.value]
    /\ result' = ClipBoxes_call(IMAGE_DATA_FORMAT, args.image_shape, result.value)
    /\ UNCHANGED IMAGE_DATA_FORMAT

TfVersionOk ==
    /\ op = "none"
    /\ UNCHANGED IMAGE_DATA_FORMAT
    /\ \E major \in 0..MaxMajor, minor \in Minors, patch \in 0..MaxPatch,
          style \in Styles, suffix \in Suffixes, python \in Pythons :
           /\ op' = "tf_version_ok"
           /\ args' = [major |-> major, minor |-> minor, patch |-> patch,
                       style |-> style, suffix |-> suffix,
                       python |-> python,
                       VERSION |-> VersionString(major, minor, patch, style, suffix)]
           /\ result' = tf_version_ok(args'.VERSION, python,
                                      MINIMUM_TF_VERSION, BLACKLISTED_TF_VERSIONS)

CheckTfVersion ==
    /\ op = "none"
    /\ UNCHANGED IMAGE_DATA_FORMAT
    /\ \E major \in 0..MaxMajor, minor \in Minors, patch \in 0..MaxPatch,
          style \in Styles, suffix \in Suffixes,
          python \in Pythons, optimize \in BOOLEAN :
           /\ op' = "check_tf_version"
           /\ args' = [major |-> major, minor |-> minor, patch |-> patch,
                       style |-> style, suffix |-> suffix,
                       python |-> python, optimize |-> optimize,
                       VERSION |-> VersionString(major, minor, patch, style, suffix)]
           /\ result' = check_tf_version(args'.VERSION, python, optimize)

\* the call returns to its caller, which may call again
Return ==
    /\ op # "none"
    /\ UNCHANGED IMAGE_DATA_FORMAT
    /\ op' = "none"
    /\ args' = <<>>
    /\ result' = Ok(<<>>)

Next ==
    \/ SetImageDataFormat
    \/ Shift
    \/ Decode
    \/ Clip
    \/ Reclip
    \/ TfVersionOk
    \/ CheckTfVersion
    \/ Return

Spec == Init /\ [][Next]_vars

\* ------------------------------------------------------------------------
\* Properties
\* ------------------------------------------------------------------------
Box(x1, y1, x2, y2) == <<R(x1), R(y1), R(x2), R(y2)>>

\* the coordinates of box number k (0-based) of a tensor whose last axis is 4
BoxAt(t, k) == SubSeq(t.data, 4 * k + 1, 4 * k + 4)

\* the inputs shift's contract asks for
ShiftWellFormed ==
    /\ op = "shift"
    /\ At(args.features_shape, 0) >= 1
    /\ At(args.features_shape, 1) >= 1
    /\ args.stride > 0
    /\ At(args.anchors.shape, 0) >= 1

\* C1: for well-formed inputs shift returns exactly Hf*Wf*A boxes, and the box
\* at index (i*Wf + j)*A + a is anchors[a] + (sx, sy, sx, sy) with
\* sx = j*stride + (W - (Wf-1)*stride)/2 and sy = i*stride + (H - (Hf-1)*stride)/2:
\* row-major over the cells, x fastest, templates in their order in each cell.
C1_ShiftTiling ==
    ShiftWellFormed =>
        LET H == At(args.image_shape, 0)
            W == At(args.image_shape, 1)
            Hf == At(args.features_shape, 0)
            Wf == At(args.features_shape, 1)
            A == At(args.anchors.shape, 0)
            sx(j) == Norm(2 * j * args.stride + (W - (Wf - 1) * args.stride), 2)
            sy(i) == Norm(2 * i * args.stride + (H - (Hf - 1) * args.stride), 2)
        IN  /\ result.status = "ok"
            /\ result.value.shape = <<Hf * Wf * A, 4>>
            /\ Len(result.value.data) = Hf * Wf * A * 4
            /\ \A i \in 0..(Hf - 1), j \in 0..(Wf - 1), a \in 0..(A - 1) :
                  LET t == BoxAt(args.anchors, a)
                  IN  BoxAt(result.value, (i * Wf + j) * A + a)
                        = <<RAdd(t[1], sx(j)), RAdd(t[2], sy(i)),
                            RAdd(t[3], sx(j)), RAdd(t[4], sy(i))>>

\* a 2 x 2 grid with two templates and stride 2 has been tiled into 8 boxes
C1_Witness ==
    /\ ShiftWellFormed
    /\ args.features_shape = <<2, 2>>
    /\ args.stride = 2
    /\ At(args.anchors.shape, 0) = 2
    /\ result.status = "ok"
    /\ At(result.value.shape, 0) = 8

\* the decoder was called with boxes and deltas of one shape
DecodeSameShape ==
    /\ op = "bbox_transform_inv"
    /\ args.boxes.shape = args.deltas.shape

\* C2: for boxes and deltas of equal shape (B, N, 4) bbox_transform_inv returns
\* a (B, N, 4) array whose entry for each box is
\* (x1 + (dx1*std[0] + mean[0])*w, y1 + (dy1*std[1] + mean[1])*h,
\*  x2 + (dx2*std[2] + mean[2])*w, y2 + (dy2*std[3] + mean[3])*h), w = x2 - x1,
\* h = y2 - y1, with mean 0 and std 0.2 when omitted; box (0,0,10,10) with delta
\* (0.5,0,0,0), mean 0 and std 1 decodes to (5,0,10,10).
C2_DecodeFormula ==
    DecodeSameShape =>
        LET B == args.boxes.shape[1]
            N == args.boxes.shape[2]
            mean == IF args.mean = <<>> THEN Box(0, 0, 0, 0) ELSE args.mean
            std == IF args.std = <<>>
                   THEN <<Norm(2, 10), Norm(2, 10), Norm(2, 10), Norm(2, 10)>>
                   ELSE args.std
            Moved(v, d, c, extent) == RAdd(v, RMul(RAdd(RMul(d, std[c]), mean[c]), extent))
        IN  /\ result.status = "ok"
            /\ result.value.shape = <<B, N, 4>>
            /\ Len(result.value.data) = B * N * 4
            /\ \A k \in 0..(B * N - 1) :
                  LET b == BoxAt(args.boxes, k)
                      d == BoxAt(args.deltas, k)
                      w == RSub(b[3], b[1])
                      h == RSub(b[4], b[2])
                  IN  BoxAt(result.value, k)
                        = <<Moved(b[1], d[1], 1, w), Moved(b[2], d[2], 2, h),
                            Moved(b[3], d[3], 3, w), Moved(b[4], d[4], 4, h)>>
            /\ ( /\ args.boxes.data = Box(0, 0, 10, 10)
                 /\ args.deltas.data = <<Norm(1, 2), R(0), R(0), R(0)>>
                 /\ args.mean = Box(0, 0, 0, 0)
                 /\ args.std = Box(1, 1, 1, 1) )
               => result.value.data = Box(5, 0, 10, 10)

\* the spec's example has been decoded
C2_Witness ==
    /\ DecodeSameShape
    /\ args.boxes.data = Box(0, 0, 10, 10)
    /\ args.deltas.data = <<Norm(1, 2), R(0), R(0), R(0)>>
    /\ args.mean = Box(0, 0, 0, 0)
    /\ args.std = Box(1, 1, 1, 1)
    /\ result.status = "ok"
    /\ result.value.data = Box(5, 0, 10, 10)

\* the clipper was called under a channel ordering the framework knows
ClipCalled ==
    /\ op \in {"clip", "reclip"}
    /\ args.image_data_format \in {"channels_first", "channels_last"}

\* the image's height and width under the configured channel ordering
ImageHeight ==
    IF args.image_data_format = "channels_first"
    THEN At(args.image_shape, 2) ELSE At(args.image_shape, 1)

ImageWidth ==
    IF args.image_data_format = "channels_first"
    THEN At(args.image_shape, 3) ELSE At(args.image_shape, 2)

\* every output coordinate lies in [0, xmax] (x) or [0, ymax] (y)
Within(t, xmax, ymax) ==
    \A k \in 0..((Len(t.data) \div 4) - 1) :
        LET b == BoxAt(t, k)
        IN  /\ RLe(R(0), b[1]) /\ RLe(b[1], R(xmax))
            /\ RLe(R(0), b[2]) /\ RLe(b[2], R(ymax))
            /\ RLe(R(0), b[3]) /\ RLe(b[3], R(xmax))
            /\ RLe(R(0), b[4]) /\ RLe(b[4], R(ymax))

\* the output of ClipBoxes.call has the shape of the input boxes, which is the
\* shape compute_output_shape announces
ClipShapeKept ==
    /\ result.status = "ok"
    /\ result.value.shape = args.boxes.shape
    /\ compute_output_shape(<<args.image_shape, args.boxes.shape>>) = result.value.shape

\* C3 as stated: for every image shape (heights and widths of 0 included) every
\* output x is in [0, width-1], every output y in [0, height-1], and the output
\* has the shape of the input boxes.
C3_ClipInsideImage ==
    ClipCalled => (ClipShapeKept /\ Within(result.value, ImageWidth - 1, ImageHeight - 1))

\* C3, amended: every output x is in [0, max(width-1, 0)] and every output y in
\* [0, max(height-1, 0)], and the output has the shape of the input boxes.
C3_ClipInsideImageOrZero ==
    ClipCalled =>
        /\ ClipShapeKept
        /\ Within(result.value,
                  IF ImageWidth >= 1 THEN ImageWidth - 1 ELSE 0,
                  IF ImageHeight >= 1 THEN ImageHeight - 1 ELSE 0)

\* boxes reaching over every edge of a 2 x 1 image have been clipped
C3_Witness ==
    /\ op = "clip"
    /\ args.image_data_format = "channels_last"
    /\ ImageHeight = 2
    /\ ImageWidth = 1
    /\ BoxAt(args.boxes, 0) = Box(0 - 2, 0 - 1, 3, 4)
    /\ result.status = "ok"
    /\ BoxAt(result.value, 0) = Box(0, 0, 0, 1)

\* C4: boxes and deltas whose shapes differ in the batch or box-count dimension
\* are rejected with an error; no result is obtained by broadcasting.
C4_DecodeRejectsMismatch ==
    (op = "bbox_transform_inv" /\ args.boxes.shape # args.deltas.shape)
        => result.status = "error"

\* C5: shift fails with an error whenever Hf <= 0, Wf <= 0, stride <= 0 or the
\* template list is empty.
C5_ShiftRejectsMalformed ==
    (op = "shift" /\ ~ShiftWellFormed) => result.status = "error"

\* the inputs of the spec's ordering example
ShiftExample ==
    /\ op = "shift"
    /\ args.image_shape = <<2, 2>>
    /\ args.features_shape = <<2, 2>>
    /\ args.stride = 1
    /\ args.anchors = Tensor(<<1, 4>>, Box(0, 0, 0, 0))

\* C6 as stated: for Hf = Wf = 2, A = 1, stride = 1, image_shape = (2, 2) and the
\* template (0,0,0,0), shift returns (0,0,0,0), (1,0,1,0), (0,1,0,1), (1,1,1,1).
C6_ShiftExampleOffsetZero ==
    ShiftExample =>
        /\ result.status = "ok"
        /\ result.value =
             Tensor(<<4, 4>>, Box(0, 0, 0, 0) \o Box(1, 0, 1, 0) \o Box(0, 1, 0, 1)
                              \o Box(1, 1, 1, 1))

\* C6, amended: for these inputs the centering offset is 0.5 on both axes and
\* shift returns, in this order, (0.5,0.5,0.5,0.5), (1.5,0.5,1.5,0.5),
\* (0.5,1.5,0.5,1.5), (1.5,1.5,1.5,1.5).
C6_ShiftExampleOffsetHalf ==
    ShiftExample =>
        LET lo == Norm(1, 2)
            hi == Norm(3, 2)
        IN  /\ result.status = "ok"
            /\ result.value =
                 Tensor(<<4, 4>>, <<lo, lo, lo, lo>> \o <<hi, lo, hi, lo>>
                                  \o <<lo, hi, lo, hi>> \o <<hi, hi, hi, hi>>)

\* the example has been run
C6_Witness ==
    /\ ShiftExample
    /\ result.status = "ok"
    /\ At(result.value.shape, 0) = 4

\* the clamp of v into [0, dim - 1] as tf.clip_by_value computes it
Clamped(v, dim) == RMax(RMin(v, R(dim - 1)), R(0))

\* the boxes clipped against an image of the given height and width
ClippedTo(t, height, width) ==
    Tensor(t.shape, [k \in 1..Len(t.data) |->
        Clamped(t.data[k], IF k % 2 = 1 THEN width ELSE height)])


\* an unknown value has been handed to the setter and refused
SettingRefused ==
    /\ op = "set_image_data_format"
    /\ args.data_format = "channels_middle"
    /\ args.before = "channels_first"
    /\ result = Raise("ValueError")
    /\ IMAGE_DATA_FORMAT = "channels_first"

\* C8: clipping the output of ClipBoxes.call again, against the same image,
\* returns that output unchanged (inverted boxes and images of height or width
\* 0 included).
C8_ClipIdempotent ==
    (op = "reclip") => (result.status = "ok" /\ result.value = args.boxes)

\* an inverted box has been clipped twice against an image of width 0
C8_Witness ==
    /\ op = "reclip"
    /\ args.image_data_format = "channels_last"
    /\ ImageWidth = 0
    /\ ImageHeight = 2
    /\ BoxAt(args.boxes, 0) = Box(0, 1, 0, 0)
    /\ result.status = "ok"

\* C9: with all deltas 0 and mean = [0,0,0,0], bbox_transform_inv returns the
\* input boxes unchanged, for every std and for well-formed, zero-area and
\* inverted boxes.
C9_DecodeIdentity ==
    ( /\ DecodeSameShape
      /\ \A k \in 1..Len(args.deltas.data) : args.deltas.data[k] = R(0)
      /\ args.mean = Box(0, 0, 0, 0) )
        => (result.status = "ok" /\ result.value = args.boxes)

\* zero deltas have been applied, under a std that is not 1, to a batch holding
\* a well-formed, a zero-area and an inverted box
C9_Witness ==
    /\ DecodeSameShape
    /\ \A k \in 1..Len(args.deltas.data) : args.deltas.data[k] = R(0)
    /\ args.mean = Box(0, 0, 0, 0)
    /\ args.std = <<R(2), Norm(1, 2), R(0), R(0 - 1)>>
    /\ \E i, j, m \in 0..(args.boxes.shape[2] - 1) :
          /\ BoxAt(args.boxes, i) = Box(1, 2, 3, 5)
          /\ BoxAt(args.boxes, j) = Box(2, 3, 2, 3)
          /\ BoxAt(args.boxes, m) = Box(4, 3, 1, 1)
    /\ result.status = "ok"

\* the version string is <major>.<minor>.<patch>, each number written in a way
\* the interpreter's int() reads, alone or followed by '-...'
VersionParses ==
    /\ args.suffix = <<>> \/ Head(args.suffix) = "-"
    /\ \/ args.python = "3.6"
       \/ args.style # "underscore"
       \/ \A n \in {args.major, args.minor, args.patch} : n < 10
    /\ args.python = "2.7" => args.style # "latin"
    /\ args.python # "2.7" => args.style # "apart"

\* the version is below 1.14.0 or one of 2.0.0 and 2.0.1
VersionRefused ==
    \/ args.major < 1
    \/ (args.major = 1 /\ args.minor < 14)
    \/ (args.major = 2 /\ args.minor = 0 /\ args.patch \in {0, 1})

\* C10: check_tf_version ends the process with exit status 1, the assertion's
\* message on stderr, exactly when the version tuple read before the first '-'
\* is below 1.14.0 or is 2.0.0 or 2.0.1; for every other version (1.14.0
\* included) it returns normally and tf_version_ok returns true.  Violated:
\* under -O the assert statement is gone and a refused version returns
\* normally.
C10_VersionGate ==
    /\ (op = "check_tf_version" /\ VersionParses) =>
          IF VersionRefused
          THEN /\ result.status = "exit"
               /\ result.code = 1
               /\ result.stderr.detected = args.VERSION
               /\ result.stderr.required = <<"1", ".", "1", "4", ".", "0">>
          ELSE result = Ok(<<>>)
    /\ (op = "tf_version_ok" /\ VersionParses) => result = Ok(~VersionRefused)

\* where assert statements are compiled (no -O) the gate works as documented
VersionGateAsserting ==
    (op = "check_tf_version" => ~args.optimize) => C10_VersionGate

\* tf_version_ok does not depend on assert statements
VersionOkExact ==
    (op = "tf_version_ok" /\ VersionParses) => result = Ok(~VersionRefused)

\* a refused version has been checked under -O and let through
VersionLetThrough ==
    /\ op = "check_tf_version"
    /\ args.optimize
    /\ args.VERSION = <<"1", ".", "1", "3", ".", "2">>
    /\ result = Ok(<<>>)

\* a version with a component spelt 1_4 has been refused by an interpreter
\* that does not read underscores
VersionUnderscoreRefused ==
    /\ op = "tf_version_ok"
    /\ args.python = "3.5"
    /\ args.VERSION = <<"1", ".", "1", "_", "4", ".", "0">>
    /\ result = Raise("ValueError")

\* a version written between control characters has been read
VersionControlRead ==
    /\ op = "check_tf_version"
    /\ ~args.optimize
    /\ args.style = "control"
    /\ args.major = 2 /\ args.minor = 0 /\ args.patch = 1
    /\ Head(args.VERSION) = VT
    /\ result.status = "exit"

\* a version written with whitespace after the signs has been read by
\* Python 2 and refused
VersionApartRead ==
    /\ op = "check_tf_version"
    /\ ~args.optimize
    /\ args.python = "2.7"
    /\ args.VERSION = <<"+", " ", "\t", "1", ".", "+", " ", "\t", "1", "3", ".",
                        "+", " ", "\t", "2">>
    /\ result.status = "exit"

\* the same spelling raises ValueError under Python 3
VersionApartRaises ==
    /\ op = "check_tf_version"
    /\ ~args.optimize
    /\ args.python = "3.6"
    /\ args.style = "apart"
    /\ result = Raise("ValueError")

\* a version written between U+00A0 and U+0085 has been read by Python 3 and
\* refused by Python 2
VersionLatinRead ==
    /\ op = "tf_version_ok"
    /\ args.style = "latin"
    /\ args.suffix = <<>>
    /\ args.major = 1 /\ args.minor = 14 /\ args.patch = 0
    /\ IF args.python = "2.7" THEN result = Raise("ValueError") ELSE result = Ok(TRUE)

====
